---- MODULE Spec2Model ----
(***************************************************************************)
(* Guideline resolution, builder registry and refresh timer of the prompt  *)
(* converter: scripts/updateManager.js, scripts/promptEngines.js and the   *)
(* application script (DOMContentLoaded handler).                          *)
(*                                                                         *)
(* The page is single threaded.  An async handler runs synchronously up to *)
(* its await of fetch; everything after the response (the rest of          *)
(* loadGuidelines and the continuation of the handler that awaited it)     *)
(* runs without further suspension, so each call of loadGuidelines is two  *)
(* steps: the start (reads the source URL, issues the fetch) and the       *)
(* response (try/catch, publication, registry install, handler tail).      *)
(***************************************************************************)
EXTENDS Integers, Sequences, FiniteSets, Bags, TLC

VARIABLES
    localStorage,        \* the three STORAGE_KEYS entries
    GlobalGuidelines,    \* window.GlobalGuidelines
    builders,            \* window.PromptEngines.builders
    timers,              \* active setInterval timers: id -> period in ms
    guidelinesInterval,  \* window.__guidelinesInterval
    nextTimerId,         \* the id the next setInterval returns
    app,                 \* position of the DOMContentLoaded handler
    calls,               \* bag of loadGuidelines calls suspended at their fetch
    ret,                 \* history: outcome of the call that completed last
    lastData,            \* history: `data` of the call that published last
    elResult,            \* the result textarea: its value and dataset.params
    lastBuild,           \* history: the inputs of the last convert click
    scheduled,           \* history: the argument of the last scheduleAutoUpdate call
    completions,         \* history: the last two completions (SpecRace only)
    probe                \* the last direct call of a text function and its result

vars == <<localStorage, GlobalGuidelines, builders, timers, guidelinesInterval,
          nextTimerId, app, calls, ret, lastData, elResult, lastBuild,
          scheduled, completions, probe>>

----------------------------------------------------------------------------
(* Bounds of the model *)

\* loadGuidelines calls that may be suspended at their fetch at once
MaxInFlight == 2
\* setInterval calls in one page session
MaxTimers == 2
\* atoms in a text handed to SlotParser.parse
MaxParseLen == 6
\* characters in a text handed to MiniTranslator.translate
MaxTranslateLen == 7

----------------------------------------------------------------------------
(* Values *)

\* getItem of an absent key, an unset window property
Null == [null |-> TRUE]

\* a present storage item holding string s
Item(s) == [value |-> s]

\* the bundled document fetched when no source URL is stored
LocalBundle == "../assets/models.json"

\* source URLs a user may type into the settings dialog (trimmed)
URLS == {"https://a/g.json"}

\* text of the interval input of the settings dialog
IntervalInputs == {"", "abc", "0", "3", "10"}

\* Text is a sequence of atoms: a word, a blank " ", a delimiter (",", ".",
\* "\n"), a placeholder such as "{subject}" or the marker "Parameters:".
\* The Korean words of the source are written in Latin letters: "bit"
\* (light), "yuri" (glass), "gogeup" (luxurious), "gudo" (framing),
\* "ppalgan" (red), "gudu" (shoe), "teibeul" (table).

\* lexicons are objects: key/value entries in insertion order
EmptyLexicon == <<>>
Entry(k, v) == [key |-> k, value |-> v]

\* the four parameter keys of a model record
Params(a, s, sd, n) == [aspectKey |-> a, stylizeKey |-> s, seedKey |-> sd, negativeKey |-> n]

\* model records: id, params, template and lexicon (name, latest, engines
\* and guideline are only displayed)
ModelA == [id |-> "mj",
           params |-> Params("--ar", "--s", "--seed", "--no"),
           template |-> <<"{subject}", " ", "in", " ", "{environment}", ",", " ",
                          "{lighting}", ".", "\n", "Parameters:", " ", "{aspect}",
                          " ", "{stylize}", " ", "{seed}", " ", "{negative}">>,
           lexicon |-> <<Entry(<<"ppalgan">>, <<"crimson">>),
                         Entry(<<"teibeul">>, <<"table">>)>>]
ModelB == [id |-> "sd",
           params |-> Params("ar:", "cfg:", "seed:", "neg:"),
           template |-> <<"{subject}", ",", " ", "{details}", ",", " ", "{mood}",
                          "\n", "{negative}", " ", "{stylize}">>,
           lexicon |-> EmptyLexicon]
ModelB2 == [id |-> "sd",
            params |-> Params("ar:", "cfg:", "seed:", "neg:"),
            template |-> <<"{materials}", " ", "{subject}", ",", " ",
                           "{composition}", " ", "Parameters:", " ", "{stylize}">>,
            lexicon |-> <<Entry(<<"gudu">>, <<"boot">>)>>]
ModelC == [id |-> "veo",
           params |-> Params("--ar", "--s", "--seed", "--no"),
           template |-> <<"{engine}", ":", " ", "{subject}", " ", "{duration}", "s">>,
           lexicon |-> EmptyLexicon]

\* the global lexicon the documents carry
GlobalLexicon == <<Entry(<<"ppalgan">>, <<"red">>), Entry(<<"gudu">>, <<"shoe">>)>>

\* guideline documents the network may serve (parsed JSON objects)
Doc1 == [version |-> "1.0", updatedAt |-> "2024-01-01",
         models |-> <<ModelA, ModelB>>, lexicon |-> GlobalLexicon]
Doc2 == [version |-> "2.0", updatedAt |-> "2024-02-01",
         models |-> <<ModelB2, ModelC>>, lexicon |-> GlobalLexicon]
\* a document without version, updatedAt and models
Doc3 == [lexicon |-> EmptyLexicon]

DOCS == {Doc1, Doc2, Doc3}

\* a document whose second model record is null
Doc4 == [version |-> "4.0", updatedAt |-> "2024-04-01",
         models |-> <<ModelA, Null>>, lexicon |-> GlobalLexicon]

----------------------------------------------------------------------------
(* Small JavaScript helpers *)

\* obj.field = val on an object that may not have the field yet
Assign(obj, field, val) ==
    [f \in DOMAIN obj \cup {field} |-> IF f = field THEN val ELSE obj[f]]

\* obj.field || default, for string fields
OrDefault(obj, field, default) ==
    IF field \in DOMAIN obj /\ obj[field] # "" THEN obj[field] ELSE default

Max(a, b) == IF a >= b THEN a ELSE b

\* String.prototype.trim on the texts of the URL input
trim(s) ==
    CASE s = "  " -> ""
      [] s = " https://a/g.json " -> "https://a/g.json"
      [] OTHER -> s

\* the decimal texts the model uses and the numbers they denote; Number("")
\* is 0 and any text outside the table is not a number (NaN)
Numerals == ("" :> 0) @@ ("0" :> 0) @@ ("3" :> 3) @@ ("5" :> 5) @@
            ("10" :> 10) @@ ("50" :> 50) @@ ("60" :> 60)

\* Number(text) || default: NaN and 0 are falsy
NumberOr(text, default) ==
    IF text \in DOMAIN Numerals /\ Numerals[text] # 0
    THEN Numerals[text] ELSE default

\* String(n) for the minute counts the settings handler stores
String(n) == CHOOSE s \in DOMAIN Numerals \ {""} : Numerals[s] = n

\* JSON.stringify(obj): the text of an object; JSON.parse reads it back
JSONstringify(obj) == [json |-> obj]
JSONparse(text) == text.json

\* localStorage.getItem / setItem / removeItem
getItem(storage, key) == storage[key]
setItem(storage, key, s) == [storage EXCEPT ![key] = Item(s)]
removeItem(storage, key) == [storage EXCEPT ![key] = Null]

----------------------------------------------------------------------------
(* Text operations of JavaScript, on sequences of atoms *)

\* white space for String.prototype.trim
IsSpace(a) == a \in {" ", "\n"}

RECURSIVE TrimStart(_)
TrimStart(s) ==
    IF s # <<>> /\ IsSpace(Head(s)) THEN TrimStart(Tail(s)) ELSE s

RECURSIVE TrimEnd(_)
TrimEnd(s) ==
    IF s # <<>> /\ IsSpace(s[Len(s)]) THEN TrimEnd(SubSeq(s, 1, Len(s) - 1)) ELSE s

\* String.prototype.trim
TrimText(s) == TrimEnd(TrimStart(s))

\* k occurs in s at position i
StartsAt(s, i, k) ==
    /\ i + Len(k) - 1 <= Len(s)
    /\ SubSeq(s, i, i + Len(k) - 1) = k

\* s.replace(new RegExp(escaped k, "g"), v) for a non-empty k: every
\* occurrence found scanning from the left, replaced text is not rescanned
\* (values hold no "$" pattern)
RECURSIVE ReplaceAllFrom(_, _, _, _)
ReplaceAllFrom(s, i, k, v) ==
    IF i > Len(s) THEN <<>>
    ELSE IF StartsAt(s, i, k) THEN v \o ReplaceAllFrom(s, i + Len(k), k, v)
    ELSE <<s[i]>> \o ReplaceAllFrom(s, i + 1, k, v)

\* an empty pattern matches before every atom and at the end
RECURSIVE Interleave(_, _, _)
Interleave(s, i, v) ==
    IF i > Len(s) THEN v ELSE v \o <<s[i]>> \o Interleave(s, i + 1, v)

ReplaceAll(s, k, v) ==
    IF k = <<>> THEN Interleave(s, 1, v) ELSE ReplaceAllFrom(s, 1, k, v)

\* the first position at or after i where k occurs in s, 0 if none
RECURSIVE IndexOfFrom(_, _, _)
IndexOfFrom(s, i, k) ==
    IF i + Len(k) - 1 > Len(s) THEN 0
    ELSE IF StartsAt(s, i, k) THEN i
    ELSE IndexOfFrom(s, i + 1, k)

\* s.replace(p, v) with a string pattern: the first occurrence only
ReplaceFirst(s, p, v) ==
    LET i == IndexOfFrom(s, 1, <<p>>) IN
    IF i = 0 THEN s
    ELSE SubSeq(s, 1, i - 1) \o v \o SubSeq(s, i + 1, Len(s))

\* s.split(/[.,\n]/): the pieces between delimiters, empty ones included
RECURSIVE SplitFrom(_, _, _)
SplitFrom(s, i, piece) ==
    IF i > Len(s) THEN <<piece>>
    ELSE IF s[i] \in {".", ",", "\n"} THEN <<piece>> \o SplitFrom(s, i + 1, <<>>)
    ELSE SplitFrom(s, i + 1, Append(piece, s[i]))

Split(s) == SplitFrom(s, 1, <<>>)

\* parts.join(", ")
RECURSIVE Join(_)
Join(parts) ==
    IF parts = <<>> THEN <<>>
    ELSE IF Len(parts) = 1 THEN parts[1]
    ELSE parts[1] \o <<",", " ">> \o Join(Tail(parts))

----------------------------------------------------------------------------
(* scripts/promptEngines.js: MiniTranslator *)

\* Object.keys(lexicon)
KeysOf(lexicon) == [i \in DOMAIN lexicon |-> lexicon[i].key]

\* lexicon[key]
ValueOf(lexicon, k) ==
    lexicon[CHOOSE i \in DOMAIN lexicon : lexicon[i].key = k].value

\* obj[k] = v: an existing key keeps its place, a new one goes last
Put(lexicon, k, v) ==
    IF \E i \in DOMAIN lexicon : lexicon[i].key = k
    THEN [i \in DOMAIN lexicon |->
             IF lexicon[i].key = k THEN Entry(k, v) ELSE lexicon[i]]
    ELSE Append(lexicon, Entry(k, v))

\* Object.assign(target, source)
RECURSIVE ObjectAssignFrom(_, _, _)
ObjectAssignFrom(target, source, i) ==
    IF i > Len(source) THEN target
    ELSE ObjectAssignFrom(Put(target, source[i].key, source[i].value), source, i + 1)

ObjectAssign(target, source) == ObjectAssignFrom(target, source, 1)

\* the stable sort of line 13: longer keys first, equal lengths in their
\* original order (the length of a key is its number of atoms)
RECURSIVE InsertByLength(_, _)
InsertByLength(sorted, k) ==
    IF sorted = <<>> THEN <<k>>
    ELSE IF Len(Head(sorted)) >= Len(k)
         THEN <<Head(sorted)>> \o InsertByLength(Tail(sorted), k)
         ELSE <<k>> \o sorted

RECURSIVE SortFrom(_, _, _)
SortFrom(sorted, keys, i) ==
    IF i > Len(keys) THEN sorted
    ELSE SortFrom(InsertByLength(sorted, keys[i]), keys, i + 1)

\* the keys are left in the order of Object.keys
SortByLengthUnsorted(keys) == keys

SortByLength(keys) == SortFrom(<<>>, keys, 1)

\* the loop of lines 14-19
RECURSIVE TranslateLoop(_, _, _, _)
TranslateLoop(output, allKeys, i, mergedLexicon) ==
    IF i > Len(allKeys) THEN output
    ELSE LET value == ValueOf(mergedLexicon, allKeys[i]) IN
         TranslateLoop(IF value = <<>> THEN output
                       ELSE ReplaceAll(output, allKeys[i], value),
                       allKeys, i + 1, mergedLexicon)

\* MiniTranslator.translate(koreanText, mergedLexicon)
translate(koreanText, mergedLexicon) ==
    TranslateLoop(koreanText, SortByLength(KeysOf(mergedLexicon)), 1, mergedLexicon)

----------------------------------------------------------------------------
(* scripts/promptEngines.js: SlotParser *)

\* the keyword tests of lines 34-37; every keyword is one atom
LightingWords == {"jomyeong", "bit", "gwang", "haessal"}
MaterialWords == {"yuri", "metal", "geumsok", "plastic", "silk", "geoul"}
MoodWords == {"bunwigi", "mood", "chabun", "gogeup", "sangkwae", "ttatteut"}
CompositionWords == {"gudo", "sangdan", "hadan", "3bunhal", "closeup", "wongeun"}

Matches(part, words) == \E i \in DOMAIN part : part[i] \in words

\* parts.find(p => regex.test(p)) || default
FindOr(parts, words, default) ==
    IF \E i \in DOMAIN parts : Matches(parts[i], words)
    THEN parts[CHOOSE i \in DOMAIN parts :
                  /\ Matches(parts[i], words)
                  /\ \A j \in 1..(i - 1) : ~Matches(parts[j], words)]
    ELSE default

\* the empty pieces are kept
PartsOfKeepsEmpty(text) ==
    LET pieces == Split(TrimText(text))
    IN [i \in DOMAIN pieces |-> TrimText(pieces[i])]

\* line 29: split, trim every piece, drop the empty ones
PartsOf(text) ==
    LET pieces == Split(TrimText(text))
        trimmed == [i \in DOMAIN pieces |-> TrimText(pieces[i])]
    IN SelectSeq(trimmed, LAMBDA x : x # <<>>)

\* SlotParser.parse(text); duration is the number 4
parse(text) ==
    LET parts == PartsOf(text) IN
    [subject |-> IF Len(parts) >= 1 THEN parts[1] ELSE <<"product beauty shot">>,
     environment |-> IF Len(parts) >= 2 THEN parts[2]
                     ELSE <<"studio setting with clean background">>,
     lighting |-> FindOr(parts, LightingWords, <<"soft diffuse lighting">>),
     materials |-> FindOr(parts, MaterialWords, <<"glass, metal, plastic">>),
     mood |-> FindOr(parts, MoodWords, <<"elegant and fresh">>),
     composition |-> FindOr(parts, CompositionWords, <<"centered hero close-up">>),
     details |-> IF Len(parts) >= 3 THEN Join(SubSeq(parts, 3, Len(parts)))
                 ELSE <<"crisp label, accurate color, subtle reflections">>,
     duration |-> 4]

----------------------------------------------------------------------------
(* scripts/promptEngines.js: createBuilder / buildPrompt *)

\* modelRecord.params || {} and the key it holds, "undefined" in a template
\* literal when it holds none
ParamKey(modelRecord, k) ==
    IF "params" \in DOMAIN modelRecord /\ k \in DOMAIN modelRecord.params
    THEN modelRecord.params[k] ELSE "undefined"

\* modelRecord.template || ""
TemplateOf(modelRecord) ==
    IF "template" \in DOMAIN modelRecord THEN modelRecord.template ELSE <<>>

\* modelRecord.lexicon || {}
LexiconOf(obj) == IF "lexicon" \in DOMAIN obj THEN obj.lexicon ELSE EmptyLexicon

\* lines 51-55
MergedLexicon(globalLexicon, modelRecord) ==
    ObjectAssign(ObjectAssign(EmptyLexicon, globalLexicon), LexiconOf(modelRecord))

\* lines 73-87: the placeholders are filled one after the other, each at
\* its first occurrence in the text the earlier ones produced
Fill(template, t, engine, tokens) ==
    LET f1 == ReplaceFirst(template, "{subject}", t.subject)
        f2 == ReplaceFirst(f1, "{environment}", t.environment)
        f3 == ReplaceFirst(f2, "{lighting}", t.lighting)
        f4 == ReplaceFirst(f3, "{materials}", t.materials)
        f5 == ReplaceFirst(f4, "{mood}", t.mood)
        f6 == ReplaceFirst(f5, "{composition}", t.composition)
        f7 == ReplaceFirst(f6, "{details}", t.details)
        f8 == ReplaceFirst(f7, "{duration}", t.duration)
        f9 == ReplaceFirst(f8, "{engine}", engine)
        f10 == ReplaceFirst(f9, "{aspect}", tokens.aspect)
        f11 == ReplaceFirst(f10, "{stylize}", tokens.stylize)
        f12 == ReplaceFirst(f11, "{seed}", tokens.seed)
        f13 == ReplaceFirst(f12, "{negative}", tokens.negative)
    IN TrimText(f13)

\* line 90: the text after the first "Parameters:" up to the end of its
\* line, trimmed; empty when there is no marker
ParamsLine(filled) ==
    LET i == IndexOfFrom(filled, 1, <<"Parameters:">>)
        n == IndexOfFrom(filled, i + 1, <<"\n">>)
    IN IF i = 0 THEN <<>>
       ELSE TrimText(SubSeq(filled, i + 1, IF n = 0 THEN Len(filled) ELSE n - 1))

\* the aspect, seed and negative tokens are composed whether or not their
\* option is empty
buildPromptBareKeys(modelRecord, globalLexicon, input, engine, uiOptions) ==
    LET mergedLexicon == MergedLexicon(globalLexicon, modelRecord)
        slots == parse(input)
        tr(v) == translate(v, mergedLexicon)
        translatedSlots ==
            [subject |-> tr(slots.subject), environment |-> tr(slots.environment),
             lighting |-> tr(slots.lighting), materials |-> tr(slots.materials),
             mood |-> tr(slots.mood), composition |-> tr(slots.composition),
             details |-> tr(slots.details), duration |-> tr(<<"4">>)]
        tokens ==
            [aspect |-> <<ParamKey(modelRecord, "aspectKey"), " ">> \o uiOptions.aspect,
             stylize |-> <<ParamKey(modelRecord, "stylizeKey"), " ">> \o
                         (IF uiOptions.stylize = <<>> THEN <<"50">> ELSE uiOptions.stylize),
             seed |-> <<ParamKey(modelRecord, "seedKey"), " ">> \o uiOptions.seed,
             negative |-> <<ParamKey(modelRecord, "negativeKey"), " ">> \o
                          tr(uiOptions.negative)]
        filled == Fill(TemplateOf(modelRecord), translatedSlots, <<engine>>, tokens)
    IN [full |-> filled, params |-> ParamsLine(filled)]

\* buildPrompt(input, engine, uiOptions) of the builder made from
\* modelRecord, with window.GlobalGuidelines.lexicon as it is at the call.
\* An option text is a sequence of atoms; stylize is <<>> when it is
\* undefined or null, else the one atom String() gives for the number.
buildPrompt(modelRecord, globalLexicon, input, engine, uiOptions) ==
    LET mergedLexicon == MergedLexicon(globalLexicon, modelRecord)
        slots == parse(input)
        tr(v) == translate(v, mergedLexicon)
        translatedSlots ==
            [subject |-> tr(slots.subject), environment |-> tr(slots.environment),
             lighting |-> tr(slots.lighting), materials |-> tr(slots.materials),
             mood |-> tr(slots.mood), composition |-> tr(slots.composition),
             details |-> tr(slots.details), duration |-> tr(<<"4">>)]
        tokens ==
            [aspect |-> IF uiOptions.aspect # <<>>
                        THEN <<ParamKey(modelRecord, "aspectKey"), " ">> \o uiOptions.aspect
                        ELSE <<>>,
             stylize |-> <<ParamKey(modelRecord, "stylizeKey"), " ">> \o
                         (IF uiOptions.stylize = <<>> THEN <<"50">> ELSE uiOptions.stylize),
             seed |-> IF uiOptions.seed # <<>>
                      THEN <<ParamKey(modelRecord, "seedKey"), " ">> \o uiOptions.seed
                      ELSE <<>>,
             negative |-> IF uiOptions.negative # <<>>
                          THEN <<ParamKey(modelRecord, "negativeKey"), " ">> \o
                               tr(uiOptions.negative)
                          ELSE <<>>]
        filled == Fill(TemplateOf(modelRecord), translatedSlots, <<engine>>, tokens)
    IN [full |-> filled, params |-> ParamsLine(filled)]

----------------------------------------------------------------------------
(* scripts/promptEngines.js: the builder registry *)

\* createBuilder(modelRecord): the closure is determined by the record
createBuilder(modelRecord) == modelRecord

\* the forEach of lines 100-102; a throw of line 101 ends it with the
\* builders registered so far
RECURSIVE InstallLoop(_, _, _)
InstallLoop(registry, models, i) ==
    IF i > Len(models) \/ models[i] = Null THEN registry
    ELSE InstallLoop(
            [id \in DOMAIN registry \cup {models[i].id} |->
                IF id = models[i].id THEN createBuilder(models[i])
                ELSE registry[id]],
            models, i + 1)

\* an object without properties
EmptyObject == [id \in {} |-> Null]

\* guidelines.models || []
ModelsOf(guidelines) ==
    IF "models" \in DOMAIN guidelines THEN guidelines.models ELSE <<>>

\* `model.id` of line 101 throws a TypeError on a record that is null
InstallThrows(guidelines) ==
    \E i \in DOMAIN ModelsOf(guidelines) : ModelsOf(guidelines)[i] = Null

\* the registry is not reset: builders of earlier installs stay
installFromGuidelinesNoReset(old, guidelines) ==
    InstallLoop(IF old = Null THEN EmptyObject ELSE old, ModelsOf(guidelines), 1)

\* window.PromptEngines.installFromGuidelines(guidelines), given the
\* registry it finds: reset to {} and then one builder per model record
installFromGuidelines(old, guidelines) ==
    InstallLoop(EmptyObject, ModelsOf(guidelines), 1)

\* the ids with a registered builder: keys of (builders || {})
RegisteredIds == IF builders = Null THEN {} ELSE DOMAIN builders

----------------------------------------------------------------------------
(* scripts/updateManager.js: loadGuidelines *)

\* window.GlobalGuidelines as line 5 sets it
DefaultGuidelines == [version |-> "0.0.0", updatedAt |-> "", lexicon |-> EmptyLexicon]

\* what a fetch may do: throw (network error, non-ok response, malformed
\* JSON) or deliver one of the documents
FetchOutcomes ==
    {[threw |-> TRUE]} \cup {[threw |-> FALSE, body |-> d] : d \in DOCS}

\* `if (sourceUrl)`: a stored, non-empty URL
Configured(sourceUrl) == sourceUrl # Null /\ sourceUrl.value # ""

\* the bundled document is fetched whatever is stored
FetchTargetBundled(sourceUrl) == LocalBundle

\* the URL handed to fetchJson (lines 27-33)
FetchTarget(sourceUrl) ==
    IF Configured(sourceUrl) THEN sourceUrl.value ELSE LocalBundle

\* the tag stamped on a fetched document (lines 29, 32)
SourceTag(sourceUrl) == IF Configured(sourceUrl) THEN "remote" ELSE "local"

\* the fetched document is tagged but never stored
TryBlockNoWrite(sourceUrl, outcome, writeThrows, storage) ==
    IF outcome.threw
    THEN [threw |-> TRUE, err |-> "FetchError", data |-> Null, storage |-> storage]
    ELSE [threw |-> FALSE, err |-> "",
          data |-> Assign(outcome.body, "source", SourceTag(sourceUrl)),
          storage |-> storage]

\* the try block, lines 26-35: tag the fetched document and cache its text.
\* setItem itself throws when the quota is exceeded (writeThrows).
TryBlock(sourceUrl, outcome, writeThrows, storage) ==
    IF outcome.threw
    THEN [threw |-> TRUE, err |-> "FetchError", data |-> Null, storage |-> storage]
    ELSE LET data == Assign(outcome.body, "source", SourceTag(sourceUrl)) IN
         IF writeThrows
         THEN [threw |-> TRUE, err |-> "QuotaExceededError", data |-> Null,
               storage |-> storage]
         ELSE [threw |-> FALSE, err |-> "", data |-> data,
               storage |-> setItem(storage, "cachedJson", JSONstringify(data))]

\* the fallback stores the document it returns, tagged "cache"
CatchBlockRecaches(err, storage) ==
    LET cached == getItem(storage, "cachedJson") IN
    IF cached # Null
    THEN LET data == Assign(JSONparse(cached.value), "source", "cache") IN
         [threw |-> FALSE, err |-> "", data |-> data,
          storage |-> setItem(storage, "cachedJson", JSONstringify(data))]
    ELSE [threw |-> TRUE, err |-> err, data |-> Null, storage |-> storage]

\* without a cached document the error is swallowed and an empty document
\* is returned
CatchBlockSwallows(err, storage) ==
    LET cached == getItem(storage, "cachedJson") IN
    IF cached # Null
    THEN [threw |-> FALSE, err |-> "",
          data |-> Assign(JSONparse(cached.value), "source", "cache"),
          storage |-> storage]
    ELSE [threw |-> FALSE, err |-> "", data |-> [source |-> "cache"],
          storage |-> storage]

\* the catch block, lines 36-44
CatchBlock(err, storage) ==
    LET cached == getItem(storage, "cachedJson") IN
    IF cached # Null
    THEN [threw |-> FALSE, err |-> "",
          data |-> Assign(JSONparse(cached.value), "source", "cache"),
          storage |-> storage]
    ELSE [threw |-> TRUE, err |-> err, data |-> Null, storage |-> storage]

\* lines 26-44: the document loadGuidelines goes on with, or the error it
\* throws, and the storage it leaves
Resolve(sourceUrl, outcome, writeThrows, storage) ==
    LET t == TryBlock(sourceUrl, outcome, writeThrows, storage) IN
    IF t.threw THEN CatchBlock(t.err, storage) ELSE t

\* lines 47-51 and 57: the object published as window.GlobalGuidelines
Published(data) ==
    [version |-> OrDefault(data, "version", "0.0.0"),
     updatedAt |-> OrDefault(data, "updatedAt", ""),
     lexicon |-> EmptyLexicon,
     models |-> ModelsOf(data)]

\* lines 47-51 alone: the object line 57 has not given its models yet
PublishedHead(data) ==
    [version |-> OrDefault(data, "version", "0.0.0"),
     updatedAt |-> OrDefault(data, "updatedAt", ""),
     lexicon |-> EmptyLexicon]

\* lines 26-60: what loadGuidelines returns or throws and the storage it
\* leaves; `reached` is the document with which line 54 threw, if it did
Load(sourceUrl, outcome, writeThrows, storage) ==
    LET r == Resolve(sourceUrl, outcome, writeThrows, storage) IN
    IF ~r.threw /\ InstallThrows(r.data)
    THEN [threw |-> TRUE, err |-> "TypeError", data |-> Null,
          storage |-> r.storage, reached |-> r.data]
    ELSE [threw |-> r.threw, err |-> r.err, data |-> r.data,
          storage |-> r.storage, reached |-> Null]

\* a document is published only while none is
GuidelinesAfterFirstWins(r, old) ==
    IF r.threw \/ "models" \in DOMAIN old THEN old ELSE Published(r.data)

\* window.GlobalGuidelines after lines 26-57: a throw at line 42 skips the
\* publication, a throw at line 54 skips line 57
GuidelinesAfter(r, old) ==
    IF r.reached # Null THEN PublishedHead(r.reached)
    ELSE IF r.threw THEN old ELSE Published(r.data)

\* the registry is emptied before the outcome is known
BuildersAfterReset(r, old) ==
    IF r.threw THEN EmptyObject ELSE installFromGuidelines(old, r.data)

\* window.PromptEngines.builders after lines 26-57 (line 54)
BuildersAfter(r, old) ==
    IF r.reached # Null THEN installFromGuidelines(old, r.reached)
    ELSE IF r.threw THEN old ELSE installFromGuidelines(old, r.data)

----------------------------------------------------------------------------
(* scripts/updateManager.js: scheduleAutoUpdate *)

\* window.clearInterval(id): an unknown or undefined id is ignored
clearInterval(ts, id) == [t \in DOMAIN ts \ {id} |-> ts[t]]

\* line 65, for a numeric argument: Number(minutes) || 60, floor of 5
IntervalMs(minutes) == Max(5, IF minutes = 0 THEN 60 ELSE minutes) * 60 * 1000

\* the window's timer state
Window == [timers |-> timers, guidelinesInterval |-> guidelinesInterval,
           nextTimerId |-> nextTimerId]

\* the previous interval is not cleared
scheduleAutoUpdateNoClear(minutes, w) ==
    [timers |-> w.timers @@ (w.nextTimerId :> IntervalMs(minutes)),
     guidelinesInterval |-> w.nextTimerId,
     nextTimerId |-> w.nextTimerId + 1]

\* scheduleAutoUpdate(minutes, onUpdate) on timer state w
scheduleAutoUpdate(minutes, w) ==
    [timers |-> clearInterval(w.timers, w.guidelinesInterval)
                @@ (w.nextTimerId :> IntervalMs(minutes)),
     guidelinesInterval |-> w.nextTimerId,
     nextTimerId |-> w.nextTimerId + 1]

----------------------------------------------------------------------------
(* The application script: handlers around loadGuidelines *)

\* texts a user may leave in the URL input of the settings dialog
UrlInputs == {"", "  ", " https://a/g.json "}

\* a loadGuidelines call suspended at `await fetchJson(...)`: who called it,
\* the source URL line 23 read, the URL being fetched, and what the caller
\* holds for its continuation (the minutes of a save)
NewCall(caller, storage, minutes) ==
    [caller |-> caller,
     sourceUrl |-> getItem(storage, "sourceUrl"),
     url |-> FetchTarget(getItem(storage, "sourceUrl")),
     minutes |-> minutes]

\* scheduleAutoUpdate calls still to come from calls in flight
PendingSchedules ==
    BagCardinality([c \in {x \in BagToSet(calls) : x.caller \in {"startup", "save"}}
                       |-> calls[c]])

\* the number of calls in flight
InFlight == BagCardinality(calls)

\* lines 53 and 81: the interval input is filled from storage (default
\* "60") and read back as a number
StartupMinutes(storage) ==
    LET stored == getItem(storage, "autoMinutes") IN
    NumberOr(IF stored # Null /\ stored.value # "" THEN stored.value ELSE "60", 60)

\* the continuation schedules whether loadGuidelines returned or threw
WindowAfterAlways(c, r, w) ==
    CASE c.caller = "startup" -> scheduleAutoUpdate(StartupMinutes(r.storage), w)
      [] c.caller = "save" -> scheduleAutoUpdate(c.minutes, w)
      [] OTHER -> w

\* the timer state after the continuation of the handler that awaited call c
\* with result r: startup (line 81) and save (line 70) schedule, and only
\* when loadGuidelines returned
WindowAfter(c, r, w) ==
    IF r.threw THEN w
    ELSE CASE c.caller = "startup" ->
                scheduleAutoUpdate(StartupMinutes(r.storage), w)
           [] c.caller = "save" -> scheduleAutoUpdate(c.minutes, w)
           [] OTHER -> w

\* the callback invoked whatever loadGuidelines did
OnUpdateArgsAlways(c, r) ==
    IF c.caller = "tick" THEN <<r.data>> ELSE <<>>

\* lines 68-69, the continuation of the interval callback that awaited
\* call c: the arguments of the invocations of onUpdate it makes. A throw
\* of loadGuidelines rejects the callback before line 69.
OnUpdateArgs(c, r) ==
    IF c.caller = "tick" /\ ~r.threw THEN <<r.data>> ELSE <<>>

\* no scheduleAutoUpdate call yet in this page session
NoSchedule == [none |-> TRUE]

\* history: the argument of the scheduleAutoUpdate call the continuation of
\* the handler that awaited call c makes, if it makes one
ScheduledAfter(c, r, old) ==
    IF r.threw THEN old
    ELSE CASE c.caller = "startup" -> [minutes |-> StartupMinutes(r.storage)]
           [] c.caller = "save" -> [minutes |-> c.minutes]
           [] OTHER -> old

\* history: the ids that had a builder when the response arrived and have
\* none after the install
DroppedIds(r, old) ==
    IF r.threw \/ old = Null THEN {}
    ELSE DOMAIN old \ DOMAIN BuildersAfter(r, old)

\* the DOMContentLoaded handler: an error at line 48 rejects it before any
\* listener is attached
AppAfter(c, r, old) ==
    IF c.caller = "startup"
    THEN (IF r.threw THEN "failed" ELSE "ready")
    ELSE old

NoReturn == [none |-> TRUE]

\* the result textarea before any convert click
EmptyResult == [value |-> <<>>, params |-> <<>>]

NoBuild == [none |-> TRUE]

\* the options of the model select
ModelIds == {"mj", "sd", "veo"}

\* what a user may have entered when clicking convert: the description,
\* the custom guideline, the aspect, seed and negative inputs, the value of
\* the stylization range and the selected engine
FormInputs ==
    {[ko |-> <<"ppalgan", " ", "gudu", ",", " ", "teibeul">>, custom |-> <<>>,
      aspect |-> <<>>, stylize |-> "50", seed |-> <<>>, negative |-> <<>>,
      engine |-> "image"],
     [ko |-> <<" ", "gudu", ".", "bit", "\n", "yuri", " ", "gogeup", ",", "gudo", " ">>,
      custom |-> <<"ppalgan", " ">>,
      aspect |-> <<" ", "16:9">>, stylize |-> "0", seed |-> <<"7">>,
      negative |-> <<"gudu", " ">>, engine |-> "video"],
     [ko |-> <<" ", "\n">>, custom |-> <<>>,
      aspect |-> <<>>, stylize |-> "", seed |-> <<>>, negative |-> <<>>,
      engine |-> "image"],
     [ko |-> <<"gudu">>, custom |-> <<>>,
      aspect |-> <<>>, stylize |-> "abc", seed |-> <<>>, negative |-> <<>>,
      engine |-> "image"]}

\* line 94: Number(elStylize.value || 50), as the text a template literal
\* gives for it
StylizeOf(value) ==
    IF value = "" THEN <<"50">>
    ELSE IF value \in DOMAIN Numerals THEN <<String(Numerals[value])>>
    ELSE <<"NaN">>

\* lines 92-97
UiOptions(form) ==
    [aspect |-> TrimText(form.aspect),
     stylize |-> StylizeOf(form.stylize),
     seed |-> TrimText(form.seed),
     negative |-> TrimText(form.negative)]

\* lines 100-102
Prefixed(form) ==
    LET customGuideline == TrimText(form.custom)
        sourceText == TrimText(form.ko)
    IN IF customGuideline # <<>> THEN customGuideline \o <<"\n">> \o sourceText
       ELSE sourceText

\* (window.PromptEngines.builders || {})[modelId]
BuilderOf(registry, modelId) ==
    IF registry # Null /\ modelId \in DOMAIN registry THEN registry[modelId] ELSE Null

\* the convert click handler, lines 84-112, on the result textarea
ConvertResult(registry, guidelines, modelId, form, old) ==
    LET builder == BuilderOf(registry, modelId) IN
    IF builder = Null
    THEN [old EXCEPT !.value = <<"No builder available for the selected model.">>]
    ELSE LET result == buildPrompt(builder, guidelines.lexicon, Prefixed(form),
                                   form.engine, UiOptions(form))
         IN [value |-> result.full, params |-> result.params]

\* no text function called directly yet
NoProbe == [fn |-> "none"]

Init ==
    /\ localStorage = [sourceUrl |-> Null, autoMinutes |-> Null, cachedJson |-> Null]
    /\ GlobalGuidelines = DefaultGuidelines
    /\ builders = Null
    /\ timers = [t \in {} |-> 0]
    /\ guidelinesInterval = 0
    /\ nextTimerId = 1
    /\ app = "init"
    /\ calls = EmptyBag
    /\ ret = NoReturn
    /\ lastData = Null
    /\ elResult = EmptyResult
    /\ lastBuild = NoBuild
    /\ scheduled = NoSchedule
    /\ completions = <<>>
    /\ probe = NoProbe

\* DOMContentLoaded, up to the await of line 48
Startup ==
    /\ app = "init"
    /\ app' = "loading"
    /\ calls' = calls (+) SetToBag({NewCall("startup", localStorage, 0)})
    /\ UNCHANGED <<localStorage, GlobalGuidelines, builders, timers,
                   guidelinesInterval, nextTimerId, ret, lastData,
                   elResult, lastBuild, scheduled, completions, probe>>

\* click on save settings, lines 62-68, up to the await
SaveSettings(urlInput, intervalInput) ==
    /\ app = "ready"
    /\ InFlight < MaxInFlight
    /\ nextTimerId + PendingSchedules <= MaxTimers
    /\ LET url == trim(urlInput)
           minutes == Max(5, NumberOr(intervalInput, 60))
           s1 == IF url # "" THEN setItem(localStorage, "sourceUrl", url)
                 ELSE removeItem(localStorage, "sourceUrl")
           s2 == setItem(s1, "autoMinutes", String(minutes))
       IN /\ localStorage' = s2
          /\ calls' = calls (+) SetToBag({NewCall("save", s2, minutes)})
    /\ UNCHANGED <<GlobalGuidelines, builders, timers, guidelinesInterval,
                   nextTimerId, app, ret, lastData,
                   elResult, lastBuild, scheduled, completions, probe>>

\* click on check updates, lines 75-76, up to the await
ManualUpdate ==
    /\ app = "ready"
    /\ InFlight < MaxInFlight
    /\ calls' = calls (+) SetToBag({NewCall("manual", localStorage, 0)})
    /\ UNCHANGED <<localStorage, GlobalGuidelines, builders, timers,
                   guidelinesInterval, nextTimerId, app, ret, lastData,
                   elResult, lastBuild, scheduled, completions, probe>>

\* a tick of active timer t, lines 67-68, up to the await
Tick(t) ==
    /\ t \in DOMAIN timers
    /\ InFlight < MaxInFlight
    /\ calls' = calls (+) SetToBag({NewCall("tick", localStorage, 0)})
    /\ UNCHANGED <<localStorage, GlobalGuidelines, builders, timers,
                   guidelinesInterval, nextTimerId, app, ret, lastData,
                   elResult, lastBuild, scheduled, completions, probe>>

\* the fetch of call c settles: the rest of loadGuidelines (lines 26-60)
\* and the continuation of the handler that awaited it
Settle(c, outcome, writeThrows) ==
    /\ BagIn(c, calls)
    /\ LET r == Load(c.sourceUrl, outcome, writeThrows, localStorage)
           w == WindowAfter(c, r, Window)
       IN /\ localStorage' = r.storage
          /\ GlobalGuidelines' = GuidelinesAfter(r, GlobalGuidelines)
          /\ builders' = BuildersAfter(r, builders)
          /\ timers' = w.timers
          /\ guidelinesInterval' = w.guidelinesInterval
          /\ nextTimerId' = w.nextTimerId
          /\ app' = AppAfter(c, r, app)
          /\ scheduled' = ScheduledAfter(c, r, scheduled)
          /\ lastData' = IF r.threw THEN lastData ELSE r.data
          /\ ret' = [fetchThrew |-> outcome.threw,
                     threw |-> r.threw, err |-> r.err, data |-> r.data,
                     dropped |-> DroppedIds(r, builders) # {},
                     onUpdate |-> OnUpdateArgs(c, r)]
    /\ calls' = calls (-) SetToBag({c})
    /\ UNCHANGED <<elResult, lastBuild, probe>>

FetchSettles(c, outcome, writeThrows) ==
    /\ Settle(c, outcome, writeThrows)
    /\ UNCHANGED completions

\* history: the completion of call c, with the number of calls it leaves
\* suspended, appended to the one before it
CompletionsAfter(c, old) ==
    LET this == [caller |-> c.caller, left |-> InFlight - 1]
    IN IF old = <<>> THEN <<this>> ELSE <<old[Len(old)], this>>

\* the same step, with the completion logged
FetchSettlesLogged(c, outcome, writeThrows) ==
    /\ Settle(c, outcome, writeThrows)
    /\ completions' = CompletionsAfter(c, completions)

\* click on convert; the listener is attached once line 48 has returned
Convert(modelId, form) ==
    /\ app = "ready"
    /\ elResult' = ConvertResult(builders, GlobalGuidelines, modelId, form, elResult)
    /\ lastBuild' = [modelId |-> modelId, form |-> form,
                     found |-> BuilderOf(builders, modelId) # Null,
                     data |-> lastData]
    /\ UNCHANGED <<localStorage, GlobalGuidelines, builders, timers,
                   guidelinesInterval, nextTimerId, app, calls, ret, lastData,
                   scheduled, completions, probe>>

\* click on convert while line 84 has not run (the handler is still
\* suspended at line 48, or line 48 threw): no listener is attached and
\* nothing runs. History: the request is recorded.
ConvertUnwired(modelId, form) ==
    /\ app \in {"loading", "failed"}
    /\ lastBuild' = [modelId |-> modelId, form |-> form,
                     found |-> BuilderOf(builders, modelId) # Null,
                     data |-> lastData]
    /\ UNCHANGED <<localStorage, GlobalGuidelines, builders, timers,
                   guidelinesInterval, nextTimerId, app, calls, ret, lastData,
                   elResult, scheduled, completions, probe>>

\* numbers a script may pass as `minutes` to scheduleAutoUpdate
PeriodInputs == {-3, 0, 3, 5, 10, 60}

\* a direct call of the exported window.GuidelineUpdater.scheduleAutoUpdate
\* (line 74) with a number
Schedule(minutes) ==
    /\ nextTimerId + PendingSchedules <= MaxTimers
    /\ LET w == scheduleAutoUpdate(minutes, Window)
       IN /\ timers' = w.timers
          /\ guidelinesInterval' = w.guidelinesInterval
          /\ nextTimerId' = w.nextTimerId
    /\ scheduled' = [minutes |-> minutes]
    /\ UNCHANGED <<localStorage, GlobalGuidelines, builders, app, calls, ret,
                   lastData, elResult, lastBuild, completions, probe>>

\* the atoms of the texts handed to SlotParser.parse: a plain word, a
\* lighting keyword, a space and a delimiter
ParseAlphabet == {"gudu", "bit", " ", ","}

\* every text of at most n atoms over an alphabet
TextsUpTo(alphabet, n) == UNION {[1..k -> alphabet] : k \in 0..n}

\* texts with the other delimiters and keywords
ParseExtras ==
    {<<"\n">>, <<".", ",", "\n">>, <<" ", "\n", " ">>,
     <<"gudu", ".", "yuri", "\n", "gogeup", ",", " ", "gudo", " ", ".", "bit">>,
     <<"yuri", " ", "gudo", ",", ",", "gudu", "\n", "\n", "gogeup", " ", "bit", ".">>}

\* a direct call of SlotParser.parse(text), the first of a behaviour
ParseText(text) ==
    /\ probe = NoProbe
    /\ probe' = [fn |-> "parse", input |-> text, output |-> parse(text)]
    /\ UNCHANGED <<localStorage, GlobalGuidelines, builders, timers,
                   guidelinesInterval, nextTimerId, app, calls, ret, lastData,
                   elResult, lastBuild, scheduled, completions>>

\* the texts handed to MiniTranslator.translate are written character by
\* character, so that the length of a key is its length in the source
TranslateAlphabet == {"a", "b"}

\* lexicons whose first key is a proper substring of the second (the
\* insertion order is the reverse of the order of line 13), with the longer
\* key translated, left without a translation, or translated to text that
\* holds the shorter key
TranslateLexicons ==
    {<<Entry(<<"a">>, <<"X">>), Entry(<<"a", "b">>, <<"Y">>)>>,
     <<Entry(<<"b">>, <<"X">>), Entry(<<"a", "b", "a">>, <<"Y">>)>>,
     <<Entry(<<"a", "a">>, <<"X">>), Entry(<<"a", "a", "b">>, <<"Y">>)>>,
     <<Entry(<<"a">>, <<"X">>), Entry(<<"a", "b">>, <<>>)>>,
     <<Entry(<<"b">>, <<>>), Entry(<<"b", "b">>, <<"Y">>)>>,
     <<Entry(<<"a">>, <<"X">>), Entry(<<"b", "a">>, <<"a", "a">>)>>}

\* a direct call of MiniTranslator.translate(text, lexicon), the first of a
\* behaviour
TranslateText(text, lexicon) ==
    /\ probe = NoProbe
    /\ probe' = [fn |-> "translate", input |-> text, lexicon |-> lexicon,
                 output |-> translate(text, lexicon)]
    /\ UNCHANGED <<localStorage, GlobalGuidelines, builders, timers,
                   guidelinesInterval, nextTimerId, app, calls, ret, lastData,
                   elResult, lastBuild, scheduled, completions>>

\* the page is closed and opened again: the scripts run anew (line 5 of
\* updateManager.js and of promptEngines.js), pending fetches and timers
\* die with the old page, localStorage stays
Reload ==
    /\ app # "init"
    /\ GlobalGuidelines' = DefaultGuidelines
    /\ builders' = Null
    /\ timers' = [t \in {} |-> 0]
    /\ guidelinesInterval' = 0
    /\ nextTimerId' = 1
    /\ app' = "init"
    /\ calls' = EmptyBag
    /\ ret' = NoReturn
    /\ lastData' = Null
    /\ elResult' = EmptyResult
    /\ lastBuild' = NoBuild
    /\ scheduled' = NoSchedule
    /\ completions' = <<>>
    /\ UNCHANGED <<localStorage, probe>>

\* the stored items are removed from outside the page (the user clears the
\* site data): getItem then returns null for every key
StorageCleared ==
    /\ localStorage # [sourceUrl |-> Null, autoMinutes |-> Null, cachedJson |-> Null]
    /\ localStorage' = [sourceUrl |-> Null, autoMinutes |-> Null, cachedJson |-> Null]
    /\ UNCHANGED <<GlobalGuidelines, builders, timers, guidelinesInterval,
                   nextTimerId, app, calls, ret, lastData,
                   elResult, lastBuild, scheduled, completions, probe>>

Next ==
    \/ Startup
    \/ \E u \in UrlInputs, m \in IntervalInputs : SaveSettings(u, m)
    \/ ManualUpdate
    \/ \E t \in DOMAIN timers : Tick(t)
    \/ \E c \in BagToSet(calls), o \in FetchOutcomes :
         \E q \in (IF o.threw THEN {FALSE} ELSE BOOLEAN) : FetchSettles(c, o, q)
    \/ Reload

\* the page with the storage the code itself maintains
Spec == Init /\ [][Next]_vars

\* one page session in which the stored items may also vanish from outside
NextEvict ==
    \/ Startup
    \/ \E u \in UrlInputs, m \in IntervalInputs : SaveSettings(u, m)
    \/ ManualUpdate
    \/ \E t \in DOMAIN timers : Tick(t)
    \/ \E c \in BagToSet(calls), o \in FetchOutcomes :
         \E q \in (IF o.threw THEN {FALSE} ELSE BOOLEAN) : FetchSettles(c, o, q)
    \/ StorageCleared

SpecEvict == Init /\ [][NextEvict]_vars

\* one page session with manual refreshes and convert clicks; the convert
\* handler writes nothing but the result textarea
NextBuild ==
    \/ Startup
    \/ ManualUpdate
    \/ \E c \in BagToSet(calls), o \in FetchOutcomes :
         \E q \in (IF o.threw THEN {FALSE} ELSE BOOLEAN) : FetchSettles(c, o, q)
    \/ \E id \in ModelIds, form \in FormInputs : Convert(id, form)
    \/ \E id \in ModelIds, form \in FormInputs : ConvertUnwired(id, form)

SpecBuild == Init /\ [][NextBuild]_vars

\* the scheduler driven through its exported function: direct calls with
\* any number, the ticks of the timer and their resolutions
NextSchedule ==
    \/ \E m \in PeriodInputs : Schedule(m)
    \/ \E t \in DOMAIN timers : Tick(t)
    \/ \E c \in BagToSet(calls), o \in FetchOutcomes :
         \E q \in (IF o.threw THEN {FALSE} ELSE BOOLEAN) : FetchSettles(c, o, q)

SpecSchedule == Init /\ [][NextSchedule]_vars

\* one page session of manual refreshes and timer ticks, with the order of
\* the completions logged
NextRace ==
    \/ Startup
    \/ ManualUpdate
    \/ \E t \in DOMAIN timers : Tick(t)
    \/ \E c \in BagToSet(calls), o \in FetchOutcomes :
         \E q \in (IF o.threw THEN {FALSE} ELSE BOOLEAN) : FetchSettlesLogged(c, o, q)

SpecRace == Init /\ [][NextRace]_vars

\* the slot parser called directly with every short text
NextParse ==
    \E text \in TextsUpTo(ParseAlphabet, MaxParseLen) \cup ParseExtras : ParseText(text)

SpecParse == Init /\ [][NextParse]_vars

\* what a fetch may deliver besides: a document with a null model record
FetchOutcomesNullRecord ==
    FetchOutcomes \cup {[threw |-> FALSE, body |-> Doc4]}

\* the page started and refreshed by hand and by its timer, every JSON
\* document served
NextInstall ==
    \/ Startup
    \/ ManualUpdate
    \/ \E t \in DOMAIN timers : Tick(t)
    \/ \E c \in BagToSet(calls), o \in FetchOutcomesNullRecord :
         \E q \in (IF o.threw THEN {FALSE} ELSE BOOLEAN) : FetchSettles(c, o, q)

SpecInstall == Init /\ [][NextInstall]_vars

\* the translator called directly with every short text
NextTranslate ==
    \E text \in TextsUpTo(TranslateAlphabet, MaxTranslateLen),
       lexicon \in TranslateLexicons : TranslateText(text, lexicon)

SpecTranslate == Init /\ [][NextTranslate]_vars

----------------------------------------------------------------------------
(* Vocabulary of the properties *)

\* this step is the completion of a loadGuidelines call (ret' describes it)
Settled == BagCardinality(calls') = InFlight - 1 /\ ret' # NoReturn

\* the call that this step completes
SettledCall ==
    CHOOSE c \in BagToSet(calls) : CopiesIn(c, calls') = CopiesIn(c, calls) - 1

\* this step starts a loadGuidelines call
Started == BagCardinality(calls') = InFlight + 1

\* the call that this step starts
StartedCall ==
    CHOOSE c \in BagToSet(calls') : CopiesIn(c, calls') = CopiesIn(c, calls) + 1

\* some call has completed in this page session
Completed == ret # NoReturn

Returned == Completed /\ ~ret.threw

Cached == getItem(localStorage, "cachedJson")

\* the ids of a sequence of model records
IdsOf(models) == {models[i].id : i \in DOMAIN models}

\* the record that wins for id in a sequence of model records: the last
LastWithId(models, id) ==
    models[CHOOSE i \in DOMAIN models :
              /\ models[i].id = id
              /\ \A j \in DOMAIN models : models[j].id = id => j <= i]

\* obj without its source tag
Untagged(obj) == [f \in DOMAIN obj \ {"source"} |-> obj[f]]

----------------------------------------------------------------------------
(* Properties *)

C2_FatalCase ==
    [][(Settled /\ ret'.fetchThrew /\ Cached = Null) =>
          /\ ret'.threw
          /\ ret'.err = "FetchError"
          /\ ret'.data = Null
          /\ lastData' = lastData
          /\ (SettledCall.caller = "startup" => app' = "failed")]_vars

C2_Witness ==
    /\ Completed
    /\ ret.fetchThrew
    /\ ret.threw
    /\ ret.err = "FetchError"
    /\ Cached = Null

\* C3: a call that throws leaves the published document, the registry and
\* the cached document exactly as they were when its response arrived, and
\* starting a call changes none of them either.
C3_FailureChangesNothing ==
    [][((Settled /\ ret'.threw) \/ Started) =>
          /\ GlobalGuidelines' = GlobalGuidelines
          /\ builders' = builders
          /\ getItem(localStorage', "cachedJson") = Cached]_vars

\* a call failed while a configuration from an earlier call is installed,
\* and that configuration is still there
C3_Witness ==
    /\ Completed
    /\ ret.threw
    /\ ret.fetchThrew
    /\ lastData # Null
    /\ GlobalGuidelines = Published(lastData)
    /\ RegisteredIds = IdsOf(ModelsOf(lastData))
    /\ RegisteredIds # {}

C5_PathSelection ==
    /\ [][Started =>
             LET c == StartedCall IN
             /\ c.sourceUrl = getItem(localStorage', "sourceUrl")
             /\ c.url = (IF c.sourceUrl = Null THEN LocalBundle
                         ELSE c.sourceUrl.value)]_vars
    /\ [][Settled =>
             (~ret'.threw /\ ret'.data.source # "cache" =>
                ret'.data.source =
                  (IF SettledCall.sourceUrl = Null THEN "local" ELSE "remote"))]_vars

\* a call returned the document of the URL stored when it started, which
\* is no longer stored when it returns
C5_Witness ==
    /\ Returned
    /\ ret.data.source = "remote"
    /\ getItem(localStorage, "sourceUrl") = Null

\* C6 (as claimed): the cache path is entered only when the fetch throws: a
\* call whose fetch delivered a document and that returns, returns a
\* document tagged remote or local, never the cached one
C6_FallbackOnlyOnFetchError ==
    (Returned /\ ~ret.fetchThrew) => ret.data.source \in {"remote", "local"}

\* C7 (as claimed): once a call has returned, the published configuration
\* carries the source tag of the document it was published from
C7_PublishedSourceTag ==
    lastData # Null =>
        /\ "source" \in DOMAIN GlobalGuidelines
        /\ GlobalGuidelines["source"] \in {"remote", "local", "cache"}
        /\ GlobalGuidelines["source"] = lastData.source

\* C8: after an install the registry holds a builder for exactly the ids of
\* the installed document's models, each made from that document's record,
\* whatever was registered before.
C8_RegistryRebuild ==
    lastData # Null =>
        /\ builders # Null
        /\ DOMAIN builders = IdsOf(ModelsOf(lastData))
        /\ \A id \in DOMAIN builders :
              builders[id] = LastWithId(ModelsOf(lastData), id)

\* an id registered before the last install is gone after it
C8_Witness ==
    /\ Returned
    /\ lastData = ret.data
    /\ ret.dropped
    /\ RegisteredIds # {}

\* C9 (as claimed): the text a build produces is the one obtained with the
\* global lexicon of the resolved document overlaid by the model's own
\* lexicon
C9_LexiconMerge ==
    (lastBuild # NoBuild /\ lastBuild.found) =>
        elResult.value =
            buildPrompt(LastWithId(ModelsOf(lastBuild.data), lastBuild.modelId),
                        LexiconOf(lastBuild.data),
                        Prefixed(lastBuild.form), lastBuild.form.engine,
                        UiOptions(lastBuild.form)).full

\* C10: at most one timer is active, the one window.__guidelinesInterval
\* names; a tick comes from that timer, and a timer that was cancelled is
\* never active again.
C10_SingleTimer ==
    /\ [](Cardinality(DOMAIN timers) <= 1 /\ DOMAIN timers \subseteq {guidelinesInterval})
    /\ [][(Started /\ StartedCall.caller = "tick") =>
             DOMAIN timers = {guidelinesInterval}]_vars
    /\ [][\A t \in 1..(nextTimerId - 1) :
             t \notin DOMAIN timers => t \notin DOMAIN timers']_vars

\* a second scheduleAutoUpdate has replaced the timer of the first
C10_Witness ==
    /\ guidelinesInterval = 2
    /\ DOMAIN timers = {2}

\* C11 (as claimed): the period of the timer installed by
\* scheduleAutoUpdate(minutes) is max(5, minutes) minutes, for every number
\* including 0 and the negative ones
C11_PeriodFloor ==
    scheduled # NoSchedule =>
        /\ guidelinesInterval \in DOMAIN timers
        /\ timers[guidelinesInterval] = Max(5, scheduled.minutes) * 60 * 1000

\* C12: a tick starts one call and leaves the timer alone; when that call
\* returns a document (by any path) onUpdate is invoked once, with that
\* document; when it throws onUpdate is not invoked; either way the timers
\* are as they were.
C12_TickBehaviour ==
    /\ [][(Started /\ StartedCall.caller = "tick") =>
             /\ InFlight' = InFlight + 1
             /\ timers' = timers
             /\ guidelinesInterval' = guidelinesInterval]_vars
    /\ [][(Settled /\ SettledCall.caller = "tick") =>
             /\ ret'.onUpdate = (IF ret'.threw THEN <<>> ELSE <<ret'.data>>)
             /\ ~ret'.threw => ret'.data = lastData'
             /\ timers' = timers
             /\ guidelinesInterval' = guidelinesInterval]_vars

\* a tick whose fetch failed handed the cached document to onUpdate, and
\* the timer is still active
C12_Witness ==
    /\ Returned
    /\ ret.fetchThrew
    /\ ret.data.source = "cache"
    /\ ret.onUpdate = <<ret.data>>
    /\ guidelinesInterval \in DOMAIN timers

\* a manual refresh and a timer tick were suspended together and both have
\* completed: the completion before the last left exactly the other call
\* suspended, and nothing is suspended now
RaceOver ==
    /\ InFlight = 0
    /\ Len(completions) = 2
    /\ completions[1].left = 1
    /\ {completions[1].caller, completions[2].caller} = {"manual", "tick"}

\* C13: after a manual refresh and a tick that were suspended together have
\* both completed, the published document, the registry and the cached
\* document are all those of the document the call that completed last
\* returned.
C13_LastWriteWins ==
    (RaceOver /\ Returned) =>
        /\ GlobalGuidelines = Published(ret.data)
        /\ RegisteredIds = IdsOf(ModelsOf(ret.data))
        /\ Untagged(JSONparse(Cached.value)) = Untagged(ret.data)

\* the tick completed last with a freshly fetched document, after the
\* manual refresh it overlapped
C13_Witness ==
    /\ RaceOver
    /\ completions[2].caller = "tick"
    /\ Returned
    /\ ret.data.source = "local"
    /\ ret.data = lastData
    /\ JSONparse(Cached.value) = ret.data

\* the message of line 89
Unavailable == <<"No builder available for the selected model.">>

\* C14 (as claimed): a convert request for a model id without a registered
\* builder, also one made before any registry is installed, puts the
\* "unavailable" message in the result
C14_UnknownModel ==
    (lastBuild # NoBuild /\ ~lastBuild.found) => elResult.value = Unavailable

\* text k occurs in text s
Occurs(s, k) == IndexOfFrom(s, 1, k) # 0

\* the model record whose builder served the last convert click
BuiltModel == LastWithId(ModelsOf(lastBuild.data), lastBuild.modelId)

\* the last convert click found a builder and ran it
Built == lastBuild # NoBuild /\ lastBuild.found

\* C15: in the text a build produces, the {stylize} placeholder of the
\* template has become "<stylizeKey> <value>"; the {aspect}, {seed} and
\* {negative} placeholders have become "<key> <value>" when their option is
\* not empty (the negative value translated) and nothing when it is empty:
\* with all three empty none of their keys is in the text. No such
\* placeholder is left.
C15_OptionalTokens ==
    Built =>
        LET m == BuiltModel
            o == UiOptions(lastBuild.form)
            out == elResult.value
            has(p) == Occurs(TemplateOf(m), <<p>>)
            key(k) == ParamKey(m, k)
            neg == translate(o.negative, MergedLexicon(GlobalGuidelines.lexicon, m))
        IN /\ \A p \in {"{aspect}", "{stylize}", "{seed}", "{negative}"} :
                ~Occurs(out, <<p>>)
           /\ has("{stylize}") =>
                Occurs(out, <<key("stylizeKey"), " ">> \o o.stylize)
           /\ Occurs(out, <<key("aspectKey")>>) <=> (has("{aspect}") /\ o.aspect # <<>>)
           /\ Occurs(out, <<key("seedKey")>>) <=> (has("{seed}") /\ o.seed # <<>>)
           /\ Occurs(out, <<key("negativeKey")>>) <=>
                (has("{negative}") /\ o.negative # <<>>)
           /\ (has("{aspect}") /\ o.aspect # <<>>) =>
                Occurs(out, <<key("aspectKey"), " ">> \o o.aspect)
           /\ (has("{seed}") /\ o.seed # <<>>) =>
                Occurs(out, <<key("seedKey"), " ">> \o o.seed)
           /\ (has("{negative}") /\ o.negative # <<>>) =>
                Occurs(out, <<key("negativeKey"), " ">> \o neg)

\* a build with the three options empty, from a template that holds all
\* four placeholders: only the stylize token is in the text
C15_Witness ==
    /\ Built
    /\ \A p \in {"{aspect}", "{stylize}", "{seed}", "{negative}"} :
          Occurs(TemplateOf(BuiltModel), <<p>>)
    /\ UiOptions(lastBuild.form).aspect = <<>>
    /\ UiOptions(lastBuild.form).seed = <<>>
    /\ UiOptions(lastBuild.form).negative = <<>>
    /\ Occurs(elResult.value, <<"--s", " ", "50">>)
    /\ ~Occurs(elResult.value, <<"--ar">>)

\* C16 (as claimed): the value in the stylize token is the stylize option
\* when that is a number, 0 included, and 50 when it is absent or not a
\* number
C16_StylizeDefault ==
    (Built /\ Occurs(TemplateOf(BuiltModel), <<"{stylize}">>)) =>
        LET v == lastBuild.form.stylize
            value == IF v \in DOMAIN Numerals \ {""}
                     THEN String(Numerals[v]) ELSE "50"
        IN Occurs(elResult.value, <<ParamKey(BuiltModel, "stylizeKey"), " ", value>>)

\* the delimiters of line 29
Delimiters == {".", ",", "\n"}

\* the positions where a delimiter-free run of text starts: the first
\* position and the one after each delimiter
RunStarts(text) ==
    {i \in 1..(Len(text) + 1) : i = 1 \/ text[i - 1] \in Delimiters}

\* the run that starts at i, trimmed
RunAt(text, i) ==
    LET ends == {j \in i..(Len(text) + 1) : j = Len(text) + 1 \/ text[j] \in Delimiters}
        e == CHOOSE j \in ends : \A k \in ends : j <= k
    IN TrimText(SubSeq(text, i, e - 1))

\* the starts of the non-empty segments, and the n-th segment
SegmentStarts(text) == {i \in RunStarts(text) : RunAt(text, i) # <<>>}

Segment(text, n) ==
    RunAt(text, CHOOSE i \in SegmentStarts(text) :
                   Cardinality({j \in SegmentStarts(text) : j < i}) = n - 1)

Segments(text) == {RunAt(text, i) : i \in SegmentStarts(text)}

\* C17: for every text, parse returns the seven text slots non-empty:
\* subject is the first segment and environment the second, lighting,
\* materials, mood and composition are segments, details is the segments
\* from the third on joined with ", ", each replaced by its fixed default
\* when there is no such segment; duration is 4.
C17_SlotTotality ==
    probe.fn = "parse" =>
        LET text == probe.input
            slots == probe.output
            n == Cardinality(SegmentStarts(text))
        IN /\ DOMAIN slots = {"subject", "environment", "lighting", "materials",
                               "mood", "composition", "details", "duration"}
           /\ \A k \in DOMAIN slots \ {"duration"} : slots[k] # <<>>
           /\ slots.subject =
                (IF n >= 1 THEN Segment(text, 1) ELSE <<"product beauty shot">>)
           /\ slots.environment =
                (IF n >= 2 THEN Segment(text, 2)
                 ELSE <<"studio setting with clean background">>)
           /\ slots.lighting \in Segments(text) \cup {<<"soft diffuse lighting">>}
           /\ slots.materials \in Segments(text) \cup {<<"glass, metal, plastic">>}
           /\ slots.mood \in Segments(text) \cup {<<"elegant and fresh">>}
           /\ slots.composition \in Segments(text) \cup {<<"centered hero close-up">>}
           /\ slots.details =
                (IF n >= 3 THEN Join([k \in 1..(n - 2) |-> Segment(text, k + 2)])
                 ELSE <<"crisp label, accurate color, subtle reflections">>)
           /\ slots.duration = 4

\* a blank first piece is dropped and the two segments are trimmed: the
\* second is the environment and, holding a keyword, the lighting; the mood
\* gets its default
C17_Witness ==
    /\ probe.fn = "parse"
    /\ probe.input = <<" ", ",", "gudu", ",", "bit", " ">>
    /\ probe.output.subject = <<"gudu">>
    /\ probe.output.environment = <<"bit">>
    /\ probe.output.lighting = <<"bit">>
    /\ probe.output.mood = <<"elegant and fresh">>

\* the positions of text where a line begins with the marker "Parameters:"
MarkerLines(text) ==
    {i \in 1..Len(text) :
        text[i] = "Parameters:" /\ (i = 1 \/ text[i - 1] = "\n")}

\* the text after position i up to the end of its line, trimmed
RestOfLine(text, i) ==
    LET ends == {j \in (i + 1)..(Len(text) + 1) : j = Len(text) + 1 \/ text[j] = "\n"}
        e == CHOOSE j \in ends : \A k \in ends : j <= k
    IN TrimText(SubSeq(text, i + 1, e - 1))

\* C18 (as claimed): params is the trimmed text after the marker on the
\* first line of the produced text that begins with "Parameters:", and is
\* empty when no line begins with it
C18_ParamsLine ==
    Built =>
        LET text == elResult.value
            lines == MarkerLines(text)
        IN elResult.params =
             (IF lines = {} THEN <<>>
              ELSE RestOfLine(text, CHOOSE i \in lines : \A k \in lines : i <= k))

\* every key atom of text put back for its translation: "X" for the first
\* key of the lexicon and "Y" for the second
RECURSIVE Untranslated(_, _)
Untranslated(text, lexicon) ==
    IF text = <<>> THEN <<>>
    ELSE (CASE Head(text) = "X" -> lexicon[1].key
            [] Head(text) = "Y" -> lexicon[2].key
            [] OTHER -> <<Head(text)>>) \o Untranslated(Tail(text), lexicon)

\* C19: with a key A that is a proper substring of a key B, a text that
\* holds B has its first B replaced as a whole by the translation of B,
\* what precedes it being translated with A alone; the result holds neither
\* key any more and is the text again once every translation is put back.
\* A key without a translation is not applied.
C19_LongestMatch ==
    probe.fn = "translate" =>
        LET text == probe.input
            out == probe.output
            A == probe.lexicon[1]
            B == probe.lexicon[2]
            i == IndexOfFrom(text, 1, B.key)
            before == ReplaceAll(SubSeq(text, 1, i - 1), A.key, A.value)
        IN /\ (A.value = <<"X">> /\ B.value = <<"Y">>) =>
                /\ i # 0 => SubSeq(out, 1, Len(before) + 1) = before \o <<"Y">>
                /\ ~Occurs(out, A.key)
                /\ ~Occurs(out, B.key)
                /\ Untranslated(out, probe.lexicon) = text
           /\ B.value = <<>> => out = ReplaceAll(text, A.key, A.value)
           /\ A.value = <<>> => out = ReplaceAll(text, B.key, B.value)

\* "aab" is in the text and has become "Y", not "Xb"
C19_Witness ==
    /\ probe.fn = "translate"
    /\ probe.lexicon[1].key = <<"a", "a">>
    /\ probe.input = <<"b", "a", "a", "a", "b", "a", "a">>
    /\ probe.output = <<"b", "a", "Y", "X">>

\* C20: between events the ids with a registered builder are the ids of the
\* models of the published document, also while calls of loadGuidelines are
\* suspended at their fetch.
C20_RegistryMatchesPublication ==
    RegisteredIds = IdsOf(ModelsOf(GlobalGuidelines))

\* C21: once a call of loadGuidelines has returned a document, the version
\* and the models of the published document are those of the document in
\* storage (with the defaults of lines 48 and 57), whatever calls overlap.
C21_CacheMatchesPublication ==
    lastData # Null =>
        /\ Cached # Null
        /\ GlobalGuidelines.version =
               OrDefault(JSONparse(Cached.value), "version", "0.0.0")
        /\ ModelsOf(GlobalGuidelines) = ModelsOf(JSONparse(Cached.value))

\* a call of loadGuidelines starts in this step
Starts == BagCardinality(calls') = InFlight + 1

\* C22: the save handler has stored the trimmed URL and the period when its
\* call of loadGuidelines starts; when that call throws, the timers and the
\* storage stay as they are, the timer of before still running; a tick
\* fetches from the URL the storage holds.
C22_SaveWithFailingResolution ==
    [][/\ (Starts /\ StartedCall.caller = "save") =>
            /\ getItem(localStorage', "autoMinutes")
                  = Item(String(StartedCall.minutes))
            /\ getItem(localStorage', "sourceUrl") = StartedCall.sourceUrl
            /\ timers' = timers
       /\ (Settled /\ SettledCall.caller = "save" /\ ret'.threw) =>
            /\ timers' = timers
            /\ guidelinesInterval' = guidelinesInterval
            /\ guidelinesInterval \in DOMAIN timers
            /\ localStorage' = localStorage
       /\ (Starts /\ StartedCall.caller = "tick") =>
            StartedCall.url = FetchTarget(getItem(localStorage, "sourceUrl"))]_vars

\* a save with a URL and 10 minutes has failed: the timer of startup still
\* runs every 60 minutes and its tick fetches from the saved URL
C22_Witness ==
    /\ Completed
    /\ ret.threw
    /\ Cached = Null
    /\ getItem(localStorage, "autoMinutes") = Item("10")
    /\ getItem(localStorage, "sourceUrl") = Item("https://a/g.json")
    /\ timers = (guidelinesInterval :> 60 * 60 * 1000)
    /\ InFlight = 1
    /\ \E c \in BagToSet(calls) : c.caller = "tick" /\ c.url = "https://a/g.json"

====
